---- MODULE Spec2Model ----
(***************************************************************************)
(* Model of PhotogenicSkySensor                                            *)
(* (custom_components/photogenic_sky/sensor.py).                           *)
(*                                                                         *)
(* Units.  Python floats are modelled by scaled integers:                  *)
(*   - sun elevation in thousandths of a degree (-5.999 deg is -5999);     *)
(*   - cloud cover and moon illumination in whole percent (0..100);        *)
(*   - precipitation in tenths of a millimetre;                            *)
(*   - wind speed in hundredths of a km/h;                                 *)
(*   - intermediate scores in tenths of a point (the coefficients 0.5,     *)
(*     0.7 and 0.8 are 5, 7 and 8 tenths), so int(score) is Trunc.         *)
(* For whole-percent inputs in 0..100 the float expressions of the source  *)
(* evaluate to the same integers as this exact arithmetic.                 *)
(* A Python dict is a function whose DOMAIN is its key set; None is <<>>   *)
(* and a present value v is <<v>> where the code distinguishes them.       *)
(* A string built by concatenation or an f-string is the tuple of its      *)
(* parts: f"{x}%" is <<x, "%">>.                                           *)
(***************************************************************************)
EXTENDS Integers, Sequences, FiniteSets, TLC

VARIABLES photogenic_score, api_data, reading, outcome

vars == <<photogenic_score, api_data, reading, outcome>>

(* ---------------------------------------------------------------- bounds *)
\* Number of equal steps in which the cloud-cover range 0..100 is sampled.
CloudGrid == 2

(* ------------------------------------------------------------- constants *)
\* {} : the dict with no keys
EmptyDict == [k \in {} |-> 0]

MOON_PHASE_ILLUMINATION ==
    [new_moon |-> 0, waxing_crescent |-> 15, first_quarter |-> 50,
     waxing_gibbous |-> 85, full_moon |-> 100, waning_gibbous |-> 85,
     last_quarter |-> 50, waning_crescent |-> 15]

\* moon_phase_str.replace("_", " ").title()
TitleCase ==
    [new_moon |-> "New Moon", waxing_crescent |-> "Waxing Crescent",
     first_quarter |-> "First Quarter", waxing_gibbous |-> "Waxing Gibbous",
     full_moon |-> "Full Moon", waning_gibbous |-> "Waning Gibbous",
     last_quarter |-> "Last Quarter", waning_crescent |-> "Waning Crescent",
     unknown |-> "Unknown"]

(* --------------------------------------------------------------- helpers *)
\* dict.get(key, default)
Get(d, key, default) == IF key \in DOMAIN d THEN d[key] ELSE default

\* int(x) on a float: truncation toward zero (argument in tenths).
Trunc(x10) == IF x10 >= 0 THEN x10 \div 10 ELSE -((-x10) \div 10)

\* round(x, n) dropping one decimal digit: nearest, ties to even.
RoundDiv10(x) ==
    LET q == x \div 10
        m == x % 10
    IN  IF m > 5 \/ (m = 5 /\ q % 2 = 1) THEN q + 1 ELSE q

Max(a, b) == IF a >= b THEN a ELSE b
Min(a, b) == IF a <= b THEN a ELSE b

\* f"{x}%"
Pct(x) == <<x, "%">>
\* f"{x}(degree sign)C"
DegC(x) == <<x, "degC">>

(* ------------------------------------------------ _calculate_main_score *)
\* Mutant: Blue Hour folded into the Night branch.
lighting_condition_blue_as_night(sun_elevation) ==
    IF sun_elevation < -4000 THEN "Night"
    ELSE IF sun_elevation < 6000 THEN "Golden Hour"
    ELSE "Daytime"

\* Mutant: the Night test written <= -6.
lighting_condition_closed_night(sun_elevation) ==
    IF sun_elevation <= -6000 THEN "Night"
    ELSE IF -4000 <= sun_elevation /\ sun_elevation < 6000 THEN "Golden Hour"
    ELSE IF -6000 <= sun_elevation /\ sun_elevation < -4000 THEN "Blue Hour"
    ELSE "Daytime"

\* Lines 159-170: the branch taken, as the lighting_condition it reports.
lighting_condition_of(sun_elevation) ==
    IF sun_elevation < -6000 THEN "Night"
    ELSE IF -4000 <= sun_elevation /\ sun_elevation < 6000 THEN "Golden Hour"
    ELSE IF -6000 <= sun_elevation /\ sun_elevation < -4000 THEN "Blue Hour"
    ELSE "Daytime"

\* Mutant: the Night score computed from the cloud layers.
night_score10_by_cloud(cloud_low, cloud_mid, cloud_high) ==
    1000 - (((cloud_low * 5) + (cloud_mid * 2)) + cloud_high)

\* Line 160 (tenths).
night_score10(cloud_low, cloud_mid, cloud_high) == 500

\* Line 164 (tenths).
golden_score10(cloud_low, cloud_high) ==
    (500 + (cloud_high * 5)) - (cloud_low * 8)

\* Mutant: the mid-cloud penalty applied from 75 on.
day_score10_mid_from_75(cloud_low, cloud_mid) ==
    (1000 - (cloud_low * 7)) - (IF cloud_mid >= 75 THEN 250 ELSE 0)

\* Lines 172-173 (tenths).
day_score10(cloud_low, cloud_mid) ==
    (1000 - (cloud_low * 7)) - (IF cloud_mid > 75 THEN 250 ELSE 0)

\* Mutant: the lower clamp forgotten.
clamp_score_no_floor(score10) == Min(100, Trunc(score10))

\* Line 178: max(0, min(100, int(score)))
clamp_score(score10) == Max(0, Min(100, Trunc(score10)))

\* Lines 160-176: the summary text, as the tuple of its concatenated parts.
main_summary(lighting_condition, cloud_low, cloud_mid, cloud_high) ==
    IF lighting_condition = "Night"
    THEN <<"Night time. See Astro card for details.">>
    ELSE IF lighting_condition = "Golden Hour"
    THEN <<"Golden Hour: ",
           IF cloud_high > 20 /\ cloud_low < 30
           THEN "Stunning sunset potential!"
           ELSE IF cloud_low > 50
           THEN "Poor. Low clouds are blocking the sun."
           ELSE "Decent conditions, but clouds may not be ideal.">>
    ELSE <<lighting_condition, ": ",
           IF cloud_low > 60
           THEN "Dull, overcast conditions."
           ELSE IF cloud_mid > 20
           THEN "Good potential for dramatic skies."
           ELSE "Clear conditions, may have harsh light.">>

\* Mutant: a missing cloud layer taken as overcast.
cloud_field_overcast(current, key) == Get(current, key, 100)

\* dict.get for the cloud layers (lines 153-155, 115, 140-142).
cloud_field(current, key) == Get(current, key, 0)

calculate_main_score(sun_elevation, current) ==
    LET cloud_low  == cloud_field(current, "cloudcover_low")
        cloud_mid  == cloud_field(current, "cloudcover_mid")
        cloud_high == cloud_field(current, "cloudcover_high")
        lighting_condition == lighting_condition_of(sun_elevation)
        score10 ==
          IF lighting_condition = "Night"
          THEN night_score10(cloud_low, cloud_mid, cloud_high)
          ELSE IF lighting_condition = "Golden Hour"
          THEN golden_score10(cloud_low, cloud_high)
          ELSE day_score10(cloud_low, cloud_mid)
    IN  [score |-> clamp_score(score10),
         summary |-> main_summary(lighting_condition, cloud_low, cloud_mid,
                                  cloud_high),
         lighting_condition |-> lighting_condition]

(* ------------------------------------------------------------ async_update *)
\* What one refresh sees: the outcome of the two provider requests (fault
\* names the request that raised, "none" when both returned), the two JSON
\* payloads, and the host's sun.sun elevation and moon.moon state (<<>> when
\* the host has no such entity).
Reading(fault, current_data, daily_data, sun, moon) ==
    [fault |-> fault, current_data |-> current_data,
     daily_data |-> daily_data, sun |-> sun, moon |-> moon]

\* Mutant: the precipitation override forgotten.
astro_score10_rain_ignored(moon_illumination, total_clouds, precip) ==
    (1000 - (moon_illumination * 5)) - (total_clouds * 5)

\* Lines 119-122: the astro score before it is published (tenths).
astro_score10(moon_illumination, total_clouds, precip) ==
    IF precip > 0 THEN 0
    ELSE (1000 - (moon_illumination * 5)) - (total_clouds * 5)

\* Lines 124-130.
astro_summary_of(astro10) ==
    IF astro10 > 850
    THEN "Excellent conditions: clear skies and a dark moon."
    ELSE IF astro10 > 600
    THEN "Good conditions, some moonlight or thin clouds will be visible."
    ELSE "Not suitable for astrophotography."

\* Line 113: MOON_PHASE_ILLUMINATION.get(moon_phase_str, 50)
moon_illumination_of(moon_phase_str) ==
    Get(MOON_PHASE_ILLUMINATION, moon_phase_str, 50)

\* Lines 136-139: the attributes computed by the refresh.
score_attributes(current, sun_elevation, moon_phase_str) ==
    LET total_clouds == cloud_field(current, "cloudcover")
        precip       == Get(current, "precipitation", 0)
        astro10      == astro_score10(moon_illumination_of(moon_phase_str),
                                      total_clouds, precip)
        main         == calculate_main_score(sun_elevation, current)
    IN  [photogenic_summary     |-> main.summary,
         lighting_condition     |-> main.lighting_condition,
         sun_elevation          |-> RoundDiv10(sun_elevation),
         location_name          |-> "Home",
         astrophotography_score |-> Max(0, Trunc(astro10)),
         astro_summary          |-> astro_summary_of(astro10),
         moon_phase             |-> TitleCase[moon_phase_str]]

\* Lines 140-149: the attributes echoed from the payloads.
echo_attributes(current, daily) ==
    [cloud_cover_low    |-> Pct(cloud_field(current, "cloudcover_low")),
     cloud_cover_mid    |-> Pct(cloud_field(current, "cloudcover_mid")),
     cloud_cover_high   |-> Pct(cloud_field(current, "cloudcover_high")),
     daily_max_uv_index |-> Get(daily, "uv_index_max", <<0>>)[1],
     precipitation_mm   |-> Get(current, "precipitation", 0),
     wind_kph           |-> RoundDiv10(Get(current, "windspeed_10m", 0)),
     humidity           |-> Pct(Get(current, "relativehumidity_2m", 0)),
     feels_like_c       |-> DegC(Get(current, "apparent_temperature", 0)),
     sunrise            |-> Get(daily, "sunrise", <<"">>)[1],
     sunset             |-> Get(daily, "sunset", <<"">>)[1],
     last_updated       |-> IF "time" \in DOMAIN current
                            THEN <<current["time"]>> ELSE <<>>]

\* Mutant: daily_max_uv_index published under the name uv_index.
published_attributes_uv_renamed(current, daily, sun_elevation, moon_phase_str) ==
    LET d == score_attributes(current, sun_elevation, moon_phase_str)
                @@ echo_attributes(current, daily)
    IN  [k \in ((DOMAIN d) \ {"daily_max_uv_index"}) \cup {"uv_index"} |->
            IF k = "uv_index" THEN d["daily_max_uv_index"] ELSE d[k]]

\* Lines 135-150: the attribute dict of a successful refresh.
published_attributes(current, daily, sun_elevation, moon_phase_str) ==
    score_attributes(current, sun_elevation, moon_phase_str)
        @@ echo_attributes(current, daily)

\* Lines 95-99: a request raised.
update_on_error ==
    /\ photogenic_score' = 0
    /\ api_data' = [k \in (DOMAIN api_data) \cup {"photogenic_summary"} |->
                      IF k = "photogenic_summary"
                      THEN <<"Could not retrieve data.">>
                      ELSE api_data[k]]
    /\ outcome' = "error"

\* Mutant: the score reset as on a request error.
update_on_missing_reset ==
    /\ photogenic_score' = 0
    /\ UNCHANGED api_data
    /\ outcome' = "missing"

\* Lines 103-105: a payload lacks its section (or the section is empty).
update_on_missing ==
    /\ UNCHANGED <<photogenic_score, api_data>>
    /\ outcome' = "missing"

\* Lines 108-109: the host's sun elevation, 0 without a sun.sun entity.
sun_elevation_of(r) == IF Len(r.sun) > 0 THEN r.sun[1] ELSE 0

\* Lines 111-112: the host's moon phase, "unknown" without a moon.moon entity.
moon_phase_str_of(r) == IF Len(r.moon) > 0 THEN r.moon[1] ELSE "unknown"

\* Lines 107-150.
update_on_success(r, current, daily) ==
    /\ photogenic_score' =
          calculate_main_score(sun_elevation_of(r), current).score
    /\ api_data' = published_attributes(current, daily, sun_elevation_of(r),
                                        moon_phase_str_of(r))
    /\ outcome' = "ok"

\* The whole handler, on the reading r.
async_update(r) ==
    LET current == Get(r.current_data, "current", EmptyDict)
        daily   == Get(r.daily_data, "daily", EmptyDict)
    IN  IF r.fault # "none"
        THEN update_on_error
        ELSE IF DOMAIN current = {} \/ DOMAIN daily = {}
        THEN update_on_missing
        ELSE update_on_success(r, current, daily)

(* ---------------------------------------------------------------- readings *)
AllFields ==
    {"cloudcover", "cloudcover_low", "cloudcover_mid", "cloudcover_high",
     "precipitation", "windspeed_10m", "relativehumidity_2m",
     "apparent_temperature", "time"}

CloudFields ==
    {"cloudcover", "cloudcover_low", "cloudcover_mid", "cloudcover_high"}

\* The "current" section holding the fields of shape.
Current(shape, total, low, mid, high, precip) ==
    [k \in shape |->
        CASE k = "cloudcover"           -> total
          [] k = "cloudcover_low"       -> low
          [] k = "cloudcover_mid"       -> mid
          [] k = "cloudcover_high"      -> high
          [] k = "precipitation"        -> precip
          [] k = "windspeed_10m"        -> 1234
          [] k = "relativehumidity_2m"  -> 40
          [] k = "apparent_temperature" -> 215
          [] k = "time"                 -> "2024-06-01T12:00"]

DailyFull ==
    [sunrise |-> <<"2024-06-01T05:00", "2024-06-02T05:01">>,
     sunset |-> <<"2024-06-01T21:00", "2024-06-02T20:59">>,
     uv_index_max |-> <<65, 70>>]

DailySunOnly == [sunrise |-> <<"2024-06-01T05:00">>]

\* Readings on which both requests returned payloads with their sections.
OkReadings(Suns, Moons, Totals, Lows, Mids, Highs, Precips, Shapes, Dailies) ==
    { Reading("none",
              [current |-> Current(sh, t, l, m, h, p)],
              [daily |-> d], s, mo) :
        s \in Suns, mo \in Moons, t \in Totals, l \in Lows, m \in Mids,
        h \in Highs, p \in Precips, sh \in Shapes, d \in Dailies }

\* Readings on which a request raised (transport or HTTP status error).
ErrorReadings ==
    { Reading(f, EmptyDict, EmptyDict, <<>>, <<>>) : f \in {"current", "daily"} }

\* Readings whose payloads lack the "current" or the "daily" section, or
\* hold it empty.
MissingReadings ==
    LET full == [current |-> Current(AllFields, 0, 0, 0, 0, 0)]
    IN  { Reading("none", EmptyDict, [daily |-> DailyFull], <<0>>, <<>>),
          Reading("none", [current |-> EmptyDict], [daily |-> DailyFull],
                  <<0>>, <<>>),
          Reading("none", full, EmptyDict, <<0>>, <<>>),
          Reading("none", full, [daily |-> EmptyDict], <<0>>, <<>>) }

NoReading == Reading("none", EmptyDict, EmptyDict, <<>>, <<>>)

Phases == DOMAIN MOON_PHASE_ILLUMINATION

\* The cloud-cover percentages sampled on the grid.
Grid == { (100 * i) \div CloudGrid : i \in 0..CloudGrid }

\* The sensor's life: any sequence of refreshes.
LifeReadings ==
    OkReadings({<<-7000>>, <<-6000>>, <<0>>, <<10000>>},
               {<<>>, <<"new_moon">>, <<"full_moon">>},
               Grid, {0, 100}, {0}, {0, 100}, {0, 5},
               {AllFields, {"time"}}, {DailyFull})
      \cup OkReadings({<<>>}, {<<"unknown">>}, {0}, {0}, {0}, {0}, {0},
                      {AllFields}, {DailySunOnly})
      \cup ErrorReadings \cup MissingReadings

\* One scoring: the inputs the scoring functions are exercised on.
ScoreReadings ==
    OkReadings({<<>>} \cup { <<e>> : e \in {-6001, -6000, -5999, -4001, -4000,
                                             0, 5999, 6000, 10000} },
               {<<>>, <<"unknown">>} \cup { <<ph>> : ph \in Phases },
               Grid \cup {14, 64}, Grid \cup {10, 80}, Grid \cup {75, 76},
               Grid \cup {30}, {0, 5},
               {AllFields, AllFields \ CloudFields,
                AllFields \ {"precipitation", "windspeed_10m"}, {"time"}},
               {DailyFull})

(* ----------------------------------------------------------- specification *)
\* __init__ (lines 53-54).
Init ==
    /\ photogenic_score = 0
    /\ api_data = EmptyDict
    /\ reading = NoReading
    /\ outcome = "none"

\* The scheduler calls async_update; the reading is what that call sees.
Refresh ==
    \E r \in LifeReadings :
        /\ reading' = r
        /\ async_update(r)

Next == Refresh

Spec == Init /\ [][Next]_vars

\* The scoring functions on their own: a fresh sensor, one refresh on an
\* arbitrary reading.
InitScore ==
    /\ photogenic_score = 0
    /\ api_data = EmptyDict
    /\ reading \in ScoreReadings
    /\ outcome = "none"

Score ==
    /\ outcome = "none"
    /\ reading' = reading
    /\ async_update(reading)

NextScore == Score

SpecScore == InitScore /\ [][NextScore]_vars

(* ------------------------------------------------------------------ claims *)
\* The last reading's "current" section, elevation and inputs.
cur == Get(reading.current_data, "current", EmptyDict)
elev == sun_elevation_of(reading)
HasClouds == CloudFields \subseteq DOMAIN cur
Precipitating == "precipitation" \in DOMAIN cur /\ cur["precipitation"] > 0
Published == "astrophotography_score" \in DOMAIN api_data

\* C1: in every state reachable by refreshes (successful, failed, or with
\* missing sections) the published photogenic score is an integer in 0..100
\* and, whenever it is published, so is astrophotography_score.
C1_ScoresInRange ==
    /\ photogenic_score \in 0..100
    /\ Published => api_data["astrophotography_score"] \in 0..100

\* A refresh in Golden Hour under full low cloud, where 50 - 80 is clamped
\* to 0, and rain, which zeroes the astro score.
C1_Witness ==
    /\ outcome = "ok"
    /\ elev = 0
    /\ HasClouds /\ cur["cloudcover_low"] = 100 /\ cur["cloudcover_high"] = 0
    /\ Precipitating
    /\ photogenic_score = 0
    /\ api_data["astrophotography_score"] = 0

\* C2 as stated: a failed refresh (a request raised, or a section is
\* missing) leaves the published score and every attribute unchanged.
C2_Original ==
    [][outcome' \in {"error", "missing"} =>
          /\ photogenic_score' = photogenic_score
          /\ api_data' = api_data]_vars

\* C2 amended: a refresh whose payload lacks a section leaves the published
\* result unchanged; a refresh whose request raised resets the score to 0 and
\* sets photogenic_summary to "Could not retrieve data.", leaving every other
\* attribute unchanged.
C2_FailedRefresh ==
    [][/\ outcome' = "missing" =>
            /\ photogenic_score' = photogenic_score
            /\ api_data' = api_data
       /\ outcome' = "error" =>
            /\ photogenic_score' = 0
            /\ DOMAIN api_data' = (DOMAIN api_data) \cup {"photogenic_summary"}
            /\ api_data'["photogenic_summary"] = <<"Could not retrieve data.">>
            /\ \A k \in (DOMAIN api_data) \ {"photogenic_summary"} :
                  api_data'[k] = api_data[k]]_vars

\* A refresh without the section, after a successful one whose result stays.
C2_Witness ==
    /\ outcome = "missing"
    /\ photogenic_score = 100
    /\ Published
    /\ api_data["photogenic_summary"] # <<"Could not retrieve data.">>

\* The regime the table of the specification gives for an elevation.
RegimeOf(e) ==
    CASE e < -6000               -> "Night"
      [] -6000 <= e /\ e < -4000 -> "Blue Hour"
      [] -4000 <= e /\ e < 6000  -> "Golden Hour"
      [] e >= 6000               -> "Daytime"

\* C3: the lighting regime is a total function of the sun elevation alone:
\* below -6 Night, from -6 to below -4 Blue Hour, from -4 to below 6 Golden
\* Hour, from 6 Daytime, whatever the cloud, precipitation and moon inputs.
C3_RegimeByElevation ==
    outcome = "ok" => api_data["lighting_condition"] = RegimeOf(elev)

\* Blue Hour just above -6, under rain and cloud.
C3_Witness ==
    /\ outcome = "ok"
    /\ elev = -5999
    /\ HasClouds /\ cur["cloudcover_low"] = 100 /\ Precipitating
    /\ api_data["lighting_condition"] = "Blue Hour"

\* C4 as stated: -6.0 is Night, -5.999 Blue Hour, -4.0 Golden Hour, 5.999
\* Golden Hour, 6.0 Daytime.
C4_Original ==
    outcome = "ok" =>
        /\ elev = -6000 => api_data["lighting_condition"] = "Night"
        /\ elev = -5999 => api_data["lighting_condition"] = "Blue Hour"
        /\ elev = -4000 => api_data["lighting_condition"] = "Golden Hour"
        /\ elev = 5999  => api_data["lighting_condition"] = "Golden Hour"
        /\ elev = 6000  => api_data["lighting_condition"] = "Daytime"

\* C4 amended: -6.0 is Blue Hour (Night ends just below it, at -6.001);
\* -5.999 is Blue Hour, -4.0 and 5.999 are Golden Hour, 6.0 is Daytime.
C4_Boundaries ==
    outcome = "ok" =>
        /\ elev = -6001 => api_data["lighting_condition"] = "Night"
        /\ elev = -6000 => api_data["lighting_condition"] = "Blue Hour"
        /\ elev = -5999 => api_data["lighting_condition"] = "Blue Hour"
        /\ elev = -4000 => api_data["lighting_condition"] = "Golden Hour"
        /\ elev = 5999  => api_data["lighting_condition"] = "Golden Hour"
        /\ elev = 6000  => api_data["lighting_condition"] = "Daytime"

\* The boundary the amendment moves.
C4_Witness ==
    /\ outcome = "ok"
    /\ elev = -6000
    /\ api_data["lighting_condition"] = "Blue Hour"

\* C5: after a successful refresh the astro score is 0 under precipitation,
\* whatever the cloud cover and the moon, and otherwise
\* 100 - 0.5*illumination - 0.5*total cloud cover, clamped to 0..100 and
\* truncated.
C5_AstroScore ==
    outcome = "ok" =>
        /\ Precipitating => api_data["astrophotography_score"] = 0
        /\ (~Precipitating /\ "cloudcover" \in DOMAIN cur) =>
              api_data["astrophotography_score"] =
                 Max(0, Min(100,
                     ((1000 - 5 * moon_illumination_of(moon_phase_str_of(reading)))
                        - 5 * cur["cloudcover"]) \div 10))

\* Full moon, clear sky, no precipitation: 50.
C5_Witness ==
    /\ outcome = "ok"
    /\ reading.moon = <<"full_moon">>
    /\ "cloudcover" \in DOMAIN cur /\ cur["cloudcover"] = 0
    /\ "precipitation" \in DOMAIN cur /\ cur["precipitation"] = 0
    /\ api_data["astrophotography_score"] = 50

\* C6 as stated: at Night the score is
\* 100 - (0.5*low + 0.2*mid + 0.1*high), less 100 under precipitation,
\* clamped to 0..100 and truncated.
C6_Original ==
    (outcome = "ok" /\ elev < -6000 /\ HasClouds) =>
        photogenic_score =
           LET s10 == (1000 - ((5 * cur["cloudcover_low"]
                                  + 2 * cur["cloudcover_mid"])
                                  + cur["cloudcover_high"]))
                        - (IF Precipitating THEN 1000 ELSE 0)
           IN  Max(0, Min(100, IF s10 >= 0 THEN s10 \div 10
                                ELSE -((-s10) \div 10)))

\* C6 amended: at Night (elevation below -6) the photogenic score is the
\* constant 50, whatever the cloud layers and the precipitation.
C6_NightIsFifty ==
    (outcome = "ok" /\ elev < -6000) => photogenic_score = 50

\* Night under full low cloud and rain.
C6_Witness ==
    /\ outcome = "ok"
    /\ elev < -6000
    /\ HasClouds /\ cur["cloudcover_low"] = 100 /\ Precipitating
    /\ photogenic_score = 50

\* C7: outside Night the score follows the regime's formula, clamped to
\* 0..100 and truncated: Golden Hour 50 + 0.5*high - 0.8*low; Blue Hour and
\* Daytime 100 - 0.7*low, less 25 exactly when mid > 75.
C7_RegimeFormulas ==
    (outcome = "ok" /\ elev >= -6000 /\ HasClouds) =>
        LET low  == cur["cloudcover_low"]
            mid  == cur["cloudcover_mid"]
            high == cur["cloudcover_high"]
            s10  == IF -4000 <= elev /\ elev < 6000
                    THEN (500 + 5 * high) - 8 * low
                    ELSE IF mid > 75 THEN (1000 - 7 * low) - 250
                    ELSE 1000 - 7 * low
            t    == IF s10 >= 0 THEN s10 \div 10 ELSE -((-s10) \div 10)
        IN  /\ photogenic_score = Max(0, Min(100, t))
            /\ (-4000 <= elev /\ elev < 6000 /\ high = 30 /\ low = 10)
                  => photogenic_score = 57
            /\ (~(-4000 <= elev /\ elev < 6000) /\ low = 0 /\ mid = 0
                  /\ high = 0) => photogenic_score = 100
            /\ (~(-4000 <= elev /\ elev < 6000) /\ low = 80 /\ mid <= 75)
                  => photogenic_score = 44

\* Golden Hour with high cloud 30 and low cloud 10: 57.
C7_Witness ==
    /\ outcome = "ok"
    /\ elev = 0
    /\ HasClouds /\ cur["cloudcover_high"] = 30 /\ cur["cloudcover_low"] = 10
    /\ photogenic_score = 57

\* The snapshot with every missing cloud field set to c and missing
\* precipitation and wind set to 0.
Filled(current, c) ==
    [k \in (DOMAIN current) \cup CloudFields
                            \cup {"precipitation", "windspeed_10m"} |->
        IF k \in DOMAIN current THEN current[k]
        ELSE IF k \in CloudFields THEN c ELSE 0]

\* The scores and the wind a successful refresh publishes are those of the
\* snapshot with its missing fields filled, cloud fields with c.
ScoredAsFilled(c) ==
    outcome = "ok" =>
        /\ photogenic_score =
              calculate_main_score(elev, Filled(cur, c)).score
        /\ api_data["astrophotography_score"] =
              score_attributes(Filled(cur, c), elev,
                  moon_phase_str_of(reading))["astrophotography_score"]
        /\ api_data["precipitation_mm"] = Filled(cur, c)["precipitation"]
        /\ api_data["wind_kph"] = RoundDiv10(Filled(cur, c)["windspeed_10m"])

\* C8 as stated: a missing cloud field counts as 100, missing precipitation
\* or wind as 0, so a snapshot without cloud fields is scored as overcast.
C8_Original == ScoredAsFilled(100)

\* C8 amended: a missing cloud field (low, mid, high, total) counts as 0,
\* missing precipitation or wind as 0, so a snapshot without cloud fields is
\* scored as clear sky.
C8_DefaultsZero == ScoredAsFilled(0)

\* Daytime with no field but the time: scored 100, as a clear sky.
C8_Witness ==
    /\ outcome = "ok"
    /\ DOMAIN cur = {"time"}
    /\ elev = 10000
    /\ reading.moon = <<"new_moon">>
    /\ photogenic_score = 100
    /\ api_data["astrophotography_score"] = 100
    /\ api_data["wind_kph"] = 0

\* C9: in every published result the astro_summary is the band of the
\* published astrophotography_score: above 85 Excellent, above 60 up to 85
\* Good, up to 60 Not suitable.
C9_SummaryMatchesScore ==
    Published =>
        api_data["astro_summary"] =
           (IF api_data["astrophotography_score"] > 85
            THEN "Excellent conditions: clear skies and a dark moon."
            ELSE IF api_data["astrophotography_score"] > 60
            THEN "Good conditions, some moonlight or thin clouds will be visible."
            ELSE "Not suitable for astrophotography.")

\* The attribute names the publisher contract of the specification lists.
ContractNames ==
    {"photogenic_summary", "lighting_condition", "sun_elevation",
     "astrophotography_score", "astro_summary", "moon_phase",
     "cloud_cover_low", "cloud_cover_mid", "cloud_cover_high", "uv_index",
     "precipitation_mm", "wind_kph", "humidity", "feels_like_c", "sunrise",
     "sunset", "moonrise", "moonset", "last_updated"}

\* C10 as stated: after a successful refresh the published names are exactly
\* the contract's, none missing or renamed.
C10_Original ==
    outcome = "ok" => DOMAIN api_data = ContractNames

\* C10 amended: after a successful refresh the published names are exactly
\* the contract's with uv_index published as daily_max_uv_index, without
\* moonrise and moonset, and with location_name added.
C10_PublishedNames ==
    outcome = "ok" =>
        DOMAIN api_data =
           ((ContractNames \ {"uv_index", "moonrise", "moonset"})
               \cup {"daily_max_uv_index", "location_name"})

\* A successful refresh on a daily payload without uv_index_max: the name
\* is published all the same, with the default 0.
C10_Witness ==
    /\ outcome = "ok"
    /\ "uv_index_max" \notin DOMAIN reading.daily_data["daily"]
    /\ api_data["daily_max_uv_index"] = 0
    /\ api_data["location_name"] = "Home"

====
